---- MODULE Spec2Model ----
(***************************************************************************)
(* Model of the Tiingo ingestion flows:                                    *)
(*   tiingo_backfill_flow  (src/tiingo_backfill_flow.py)                   *)
(*   tiingo_to_s3_flow     (src/tiingo_to_s3_flow.py)                      *)
(* Each flow is a sequential program; one action is one invocation of a    *)
(* task function (one attempt of a Prefect task run) or one straight-line  *)
(* piece of the flow function.  A task decorated with retries=R is invoked *)
(* again after an exception while its run count is at most R; after that   *)
(* the exception propagates into the calling flow, which has no handler.   *)
(* The remote API and the object store may fail on any invocation.         *)
(***************************************************************************)
EXTENDS Integers, Sequences, FiniteSets, TLC

\* ------------------------------------------------------------------ bounds
MaxTickers == 2     \* longest ticker list a caller passes
MaxYears == 2       \* years a caller can ask for, from 2023 on
MaxRuns == 2        \* flow invocations against the same bucket
MaxDays == 2        \* calendar days the clock can show

\* ------------------------------------------------------- program constants
FetchRetries == 3   \* @task(retries=3) of fetch_year_data / extract_ticker_data
StoreRetries == 2   \* @task(retries=2) of the S3 tasks
TICKERS_S3_KEY == "adhoc/tickers.txt"

\* ------------------------------------------------------------ input domains
TickerNames == {"AAPL", "TSLA"}
YearRange == 2023 .. (2022 + MaxYears)
\* Bodies the Tiingo API can answer with: a JSON array of opaque records.
ApiResponses == {<<>>, <<1, 2>>}
\* Contents of s3://mh-guess-data/adhoc/tickers.txt, as characters.
DefaultTickerFile ==
  <<" ", "A", "A", "P", "L", "\n", "\n", "T", "S", "L", "A", " ", "\n">>
TickerFiles ==
  { DefaultTickerFile,
    <<"T", "S", "L", "A", "\n", "T", "S", "L", "A">>,
    <<"\n", " ">> }
FirstDate == [year |-> 2024, month |-> 1, day |-> 31]

BoundedSeq(S, n) == UNION {[1 .. k -> S] : k \in 0 .. n}
NoTickers == [given |-> FALSE, list |-> <<>>]
SomeTickers(l) == [given |-> TRUE, list |-> l]
NoYearData == [ticker |-> "", year |-> 0, data |-> <<>>]

\* -------------------------------------------------------------------- state
VARIABLES
  flow,           \* which flow function the caller runs
  run,            \* number of flow invocations so far
  pc,             \* position of the flow
  tickers_arg,    \* argument tickers (None or a list)
  start_year,     \* argument start_year
  end_year,       \* argument end_year
  tickers,        \* local: the ticker list in use
  years,          \* local: list(range(start_year, end_year + 1))
  ti,             \* position of `for ticker in tickers`
  yi,             \* position of `for year in years`
  year_data,      \* local: result of fetch_year_data
  raw_data,       \* local all_data / raw_data of the daily flow
  date_partition, \* local of load_to_s3
  li,             \* position of `for ticker_data in ticker_data_list`
  uploaded_keys,  \* local uploaded_keys
  result,         \* value returned by the flow
  now,            \* the clock: day number
  store,          \* the bucket: key -> body
  task,           \* the task whose run is in progress or ended last
  calls,          \* invocations of its function in that task run
  fails,          \* ... that raised
  fetch_runs,     \* per work item: fetch task runs started in this run
  load_runs,      \* per work item: load task runs started in this run
  task_puts,      \* keys written by the current load task run
  failed,         \* task runs that ended Failed in this run
  puts,           \* every write so far: (ticker, label, load_type, key)
  latest,         \* per (ticker, label, load_type): body of the last write
  keys_at_return, \* keys in the bucket when the previous run returned
  read_runs,      \* fetch_tickers_from_s3 task runs started in this run
  put_ok,         \* per work item: put_object calls that succeeded in this run
  fetched,        \* work items whose fetch succeeded in this run, in order
  payload         \* backfill: per (ticker, year label), the data the last
                  \* successful fetch of this run returned

\* ------------------------------------------------------------ pure helpers
\* mutant: range(a, b), the end year left out
RangeExclusive(a, b) == [k \in 1 .. (b - a) |-> a + k - 1]

\* list(range(a, b + 1))
Range(a, b) == [k \in 1 .. (b - a + 1) |-> a + k - 1]

RECURSIVE JoinInts(_)
JoinInts(data) ==
  IF Len(data) = 0 THEN ""
  ELSE IF Len(data) = 1 THEN ToString(Head(data))
  ELSE ToString(Head(data)) \o ", " \o JoinInts(Tail(data))

\* json.dumps(data) of a list of numbers: compact, ", " between items
JsonDumps(data) == "[" \o JoinInts(data) \o "]"

\* mutant: the file name carries a stamp of the run that wrote it
RetroKeyPerRun(year, ticker) ==
  "tiingo/json/load_type=retro/year=" \o ToString(year) \o "/" \o ticker
    \o "-" \o ToString(run) \o ".json"

\* a key that leaves the year partition out
RetroKeyNoYear(year, ticker) ==
  "tiingo/json/load_type=retro/" \o ticker \o ".json"

\* f"tiingo/json/load_type=retro/year={year}/{ticker}.json"
RetroKey(year, ticker) ==
  "tiingo/json/load_type=retro/year=" \o ToString(year) \o "/" \o ticker \o ".json"

\* f"tiingo/json/load_type=daily/date={date_partition}/{ticker}.json"
DailyKey(partition, ticker) ==
  "tiingo/json/load_type=daily/date=" \o partition \o "/" \o ticker \o ".json"

Pad2(n) == IF n < 10 THEN "0" \o ToString(n) ELSE ToString(n)

\* current_date.strftime('%Y-%m-%d')
Strftime(d) == ToString(d.year) \o "-" \o Pad2(d.month) \o "-" \o Pad2(d.day)

DaysInMonth(y, m) ==
  IF m = 2 THEN (IF y % 4 = 0 /\ (y % 100 # 0 \/ y % 400 = 0) THEN 29 ELSE 28)
  ELSE IF m \in {4, 6, 9, 11} THEN 30 ELSE 31

NextDate(d) ==
  IF d.day < DaysInMonth(d.year, d.month) THEN [d EXCEPT !.day = @ + 1]
  ELSE IF d.month < 12 THEN [d EXCEPT !.month = @ + 1, !.day = 1]
  ELSE [year |-> d.year + 1, month |-> 1, day |-> 1]

RECURSIVE DateOf(_)
\* the calendar date shown by the clock on its n-th day
DateOf(n) == IF n <= 1 THEN FirstDate ELSE NextDate(DateOf(n - 1))

IsSpace(c) == c \in {" ", "\n", "\t", "\r"}

RECURSIVE LStrip(_)
LStrip(s) == IF s # <<>> /\ IsSpace(Head(s)) THEN LStrip(Tail(s)) ELSE s

RECURSIVE RStrip(_)
RStrip(s) ==
  IF s # <<>> /\ IsSpace(s[Len(s)]) THEN RStrip(SubSeq(s, 1, Len(s) - 1)) ELSE s

\* str.strip()
Strip(s) == LStrip(RStrip(s))

RECURSIVE SplitLines(_, _)
\* str.split('\n'): cur is the line being read
SplitLines(s, cur) ==
  IF s = <<>> THEN <<cur>>
  ELSE IF Head(s) = "\n" THEN <<cur>> \o SplitLines(Tail(s), <<>>)
  ELSE SplitLines(Tail(s), Append(cur, Head(s)))

RECURSIVE Concat(_)
\* the characters of a line as one string
Concat(s) == IF s = <<>> THEN "" ELSE Head(s) \o Concat(Tail(s))

RECURSIVE StripLines(_)
\* [line.strip() for line in lines if line.strip()]
StripLines(lines) ==
  IF lines = <<>> THEN <<>>
  ELSE IF Strip(Head(lines)) = <<>> THEN StripLines(Tail(lines))
  ELSE <<Concat(Strip(Head(lines)))>> \o StripLines(Tail(lines))

\* the parse of the ticker file
ParseTickers(content) == StripLines(SplitLines(Strip(content), <<>>))

\* a put that leaves an object that is already there as it is
PutObjectIfAbsent(s, key, body) ==
  [k \in DOMAIN s \cup {key} |-> IF k \in DOMAIN s THEN s[k] ELSE body]

\* s3_client.put_object(Bucket, Key, Body): the key's object is replaced
PutObject(s, key, body) ==
  [k \in DOMAIN s \cup {key} |-> IF k = key THEN body ELSE s[k]]

\* mutant: the first invocation is counted as a retry
RetriesLeftOffByOne(run_count, retries) == run_count < retries

\* A task whose invocation raised is invoked again while its run count
\* (the invocations so far) is at most `retries`.
RetriesLeft(run_count, retries) == run_count <= retries

locals == <<tickers, years, ti, yi, year_data, raw_data, date_partition, li,
            uploaded_keys, result>>
args == <<flow, tickers_arg, start_year, end_year>>
counters == <<task, calls, fails>>
history == <<fetch_runs, load_runs, task_puts, failed, puts, latest, keys_at_return,
             read_runs, put_ok, fetched, payload>>
vars == <<args, run, pc, locals, now, store, counters, history>>

Ended == pc \in {"returned", "raised"}

\* position of work item (t, y) of the nested loop among n_years per ticker
ItemIndex(t, y, n_years) == (t - 1) * n_years + y

Init ==
  /\ flow \in {"backfill", "daily"}
  /\ run = 1
  /\ pc = "start"
  /\ IF flow = "backfill"
       THEN /\ tickers_arg \in {NoTickers} \cup
                 {SomeTickers(l) : l \in BoundedSeq(TickerNames, MaxTickers)}
            /\ start_year \in YearRange
            /\ end_year \in YearRange
       ELSE /\ tickers_arg = NoTickers
            /\ start_year = 0
            /\ end_year = 0
  /\ tickers = <<>>
  /\ years = <<>>
  /\ ti = 1
  /\ yi = 1
  /\ year_data = NoYearData
  /\ raw_data = <<>>
  /\ date_partition = ""
  /\ li = 1
  /\ uploaded_keys = <<>>
  /\ result = <<>>
  /\ now = 1
  /\ store \in {<<>>} \cup {[k \in {TICKERS_S3_KEY} |-> c] : c \in TickerFiles}
  \* a run that is given its tickers starts on a bucket without the ticker
  \* file or with the first one
  /\ tickers_arg.given =>
       (TICKERS_S3_KEY \in DOMAIN store => store[TICKERS_S3_KEY] = DefaultTickerFile)
  /\ task = ""
  /\ calls = 0
  /\ fails = 0
  /\ fetch_runs = <<>>
  /\ load_runs = <<>>
  /\ task_puts = {}
  /\ failed = <<>>
  /\ puts = {}
  /\ latest = {}
  /\ keys_at_return = {}
  /\ read_runs = 0
  /\ put_ok = <<>>
  /\ fetched = <<>>
  /\ payload = <<>>

\* ---------------------------------------------------------------- actions
\* A task is called at pc = its name (a new task run) and invoked again at
\* pc = RetryOf(its name).
RetryOf(name) == "retry_" \o name
AtTask(name) == pc \in {name, RetryOf(name)}
\* mutant: the run count is carried from one task run into the next
CallsCarriedOver(name) == calls
CallsBefore(name) == IF pc = name THEN 0 ELSE calls
FailsBefore(name) == IF pc = name THEN 0 ELSE fails

\* One more invocation of task `name` that returns.
Returns(name) ==
  /\ task' = name
  /\ calls' = CallsBefore(name) + 1
  /\ fails' = FailsBefore(name)

\* One more invocation of task `name` for (ticker, label) that raises: the
\* task run awaits its retry, or ends Failed and its exception propagates
\* out of the flow function.
Raises(name, retries, ticker, label) ==
  /\ task' = name
  /\ calls' = CallsBefore(name) + 1
  /\ fails' = FailsBefore(name) + 1
  /\ IF RetriesLeft(CallsBefore(name) + 1, retries)
       THEN /\ pc' = RetryOf(name)
            /\ UNCHANGED failed
       ELSE /\ pc' = "raised"
            /\ failed' = Append(failed, [task |-> name, ticker |-> ticker,
                                         label |-> label])

\* A successful put_object of `body` at `key` for (ticker, label, load_type)
\* by a task run that has written the keys `prior` before.
RecordPut(ticker, label, load_type, key, body, prior) ==
  /\ store' = PutObject(store, key, body)
  /\ task_puts' = prior \cup {key}
  /\ puts' = puts \cup
       {[ticker |-> ticker, label |-> label, load_type |-> load_type, key |-> key]}
  /\ latest' =
       {w \in latest :
          ~(w.ticker = ticker /\ w.label = label /\ w.load_type = load_type)}
       \cup {[ticker |-> ticker, label |-> label, load_type |-> load_type,
              body |-> body]}

\* fetch_tickers_from_s3: one invocation (both flows call it the same way)
FetchTickersFromS3 ==
  /\ AtTask("fetch_tickers_from_s3")
  /\ \/ /\ TICKERS_S3_KEY \in DOMAIN store
        /\ tickers' = ParseTickers(store[TICKERS_S3_KEY])
        /\ pc' = IF flow = "backfill" THEN "plan" ELSE "extract_all_tickers"
        /\ Returns("fetch_tickers_from_s3")
        /\ UNCHANGED failed
     \/ \* get_object raises: NoSuchKey, or any client error
        /\ Raises("fetch_tickers_from_s3", StoreRetries, "", "")
        /\ UNCHANGED tickers
  /\ UNCHANGED <<args, run, years, ti, yi, year_data, raw_data, date_partition,
                 li, uploaded_keys, result, now, store, fetch_runs, load_runs,
                 task_puts, puts, latest, keys_at_return,
                 put_ok, fetched, payload>>
  /\ read_runs' = IF pc = "fetch_tickers_from_s3" THEN read_runs + 1 ELSE read_runs

\* a ticker branch that reads the ticker file whatever the caller passed
BackfillStartAlwaysReads ==
  /\ flow = "backfill"
  /\ pc = "start"
  /\ pc' = "fetch_tickers_from_s3"
  /\ UNCHANGED <<args, run, tickers, years, ti, yi, year_data, raw_data,
                 date_partition, li, uploaded_keys, result, now, store, counters,
                 history>>

\* tiingo_backfill_flow up to the ticker branch
BackfillStart ==
  /\ flow = "backfill"
  /\ pc = "start"
  /\ IF ~tickers_arg.given
       THEN pc' = "fetch_tickers_from_s3" /\ UNCHANGED tickers
       ELSE pc' = "plan" /\ tickers' = tickers_arg.list
  /\ UNCHANGED <<args, run, years, ti, yi, year_data, raw_data, date_partition,
                 li, uploaded_keys, result, now, store, counters, history>>

\* years, total_ops, uploaded_keys = [] and the entry of the nested loop
BackfillPlan ==
  /\ flow = "backfill"
  /\ pc = "plan"
  /\ years' = Range(start_year, end_year)
  /\ uploaded_keys' = <<>>
  /\ ti' = 1
  /\ yi' = 1
  /\ fetch_runs' = [p \in 1 .. (Len(tickers) * Len(years')) |-> 0]
  /\ load_runs' = [p \in 1 .. (Len(tickers) * Len(years')) |-> 0]
  /\ pc' = IF Len(tickers) = 0 \/ Len(years') = 0 THEN "return"
           ELSE "fetch_year_data"
  /\ UNCHANGED <<args, run, tickers, year_data, raw_data, date_partition, li,
                 result, now, store, counters, task_puts, failed, puts, latest,
                 keys_at_return,
                 read_runs>>
  /\ put_ok' = [p \in 1 .. (Len(tickers) * Len(years')) |-> 0]
  /\ fetched' = <<>>
  /\ payload' = <<>>

\* a fetch whose last failure is swallowed, so that the flow goes on to the
\* load with the year_data it had
FetchYearDataSwallows ==
  /\ flow = "backfill"
  /\ AtTask("fetch_year_data")
  /\ fetch_runs' =
       IF pc = "fetch_year_data"
         THEN [fetch_runs EXCEPT ![ItemIndex(ti, yi, Len(years))] = @ + 1]
         ELSE fetch_runs
  /\ \/ \E data \in ApiResponses :
          /\ year_data' = [ticker |-> tickers[ti], year |-> years[yi], data |-> data]
          /\ fetched' = Append(fetched, [ticker |-> tickers[ti],
                                         label |-> ToString(years[yi])])
          /\ payload' = (<<tickers[ti], ToString(years[yi])>> :> data) @@ payload
          /\ pc' = "load_year_to_s3"
          /\ Returns("fetch_year_data")
     \/ /\ task' = "fetch_year_data"
        /\ calls' = CallsBefore("fetch_year_data") + 1
        /\ fails' = FailsBefore("fetch_year_data") + 1
        /\ pc' = IF RetriesLeft(CallsBefore("fetch_year_data") + 1, FetchRetries)
                   THEN RetryOf("fetch_year_data")
                   ELSE "load_year_to_s3"
        /\ UNCHANGED <<year_data, fetched, payload>>
  /\ UNCHANGED <<args, run, tickers, years, ti, yi, raw_data, date_partition, li,
                 uploaded_keys, result, now, store, load_runs, task_puts, puts,
                 latest, keys_at_return, read_runs, put_ok, failed>>

\* fetch_year_data(ticker, year, api_token): one invocation
FetchYearData ==
  /\ flow = "backfill"
  /\ AtTask("fetch_year_data")
  /\ fetch_runs' =
       IF pc = "fetch_year_data"
         THEN [fetch_runs EXCEPT ![ItemIndex(ti, yi, Len(years))] = @ + 1]
         ELSE fetch_runs
  /\ \/ \E data \in ApiResponses :
          /\ year_data' = [ticker |-> tickers[ti], year |-> years[yi], data |-> data]
          /\ fetched' = Append(fetched, [ticker |-> tickers[ti],
                                         label |-> ToString(years[yi])])
          /\ payload' = (<<tickers[ti], ToString(years[yi])>> :> data) @@ payload
          /\ pc' = "load_year_to_s3"
          /\ Returns("fetch_year_data")
          /\ UNCHANGED failed
     \/ \* requests.get raises, or raise_for_status on a non-2xx answer
        /\ Raises("fetch_year_data", FetchRetries, tickers[ti], ToString(years[yi]))
        /\ UNCHANGED <<year_data, fetched, payload>>
  /\ UNCHANGED <<args, run, tickers, years, ti, yi, raw_data, date_partition, li,
                 uploaded_keys, result, now, store, load_runs, task_puts, puts,
                 latest, keys_at_return, read_runs, put_ok>>

\* mutant: the loops nested the other way round, `for year: for ticker`
NextItemYearMajor(t, y, n_tickers, n_years) ==
  IF t < n_tickers THEN [ti |-> t + 1, yi |-> y, done |-> FALSE]
  ELSE IF y < n_years THEN [ti |-> 1, yi |-> y + 1, done |-> FALSE]
  ELSE [ti |-> t, yi |-> y, done |-> TRUE]

\* The nested loop `for ticker in tickers: for year in years` after item
\* (t, y): the next item, or done.
NextItem(t, y, n_tickers, n_years) ==
  IF y < n_years THEN [ti |-> t, yi |-> y + 1, done |-> FALSE]
  ELSE IF t < n_tickers THEN [ti |-> t + 1, yi |-> 1, done |-> FALSE]
  ELSE [ti |-> t, yi |-> y, done |-> TRUE]

\* load_year_to_s3(year_data, ...): one invocation, and on its return
\* uploaded_keys.append(s3_key) and the step of the loop
LoadYearToS3 ==
  /\ flow = "backfill"
  /\ AtTask("load_year_to_s3")
  /\ LET ticker == year_data.ticker
         year == year_data.year
         s3_key == RetroKey(year, ticker)
         json_data == JsonDumps(year_data.data)
         next == NextItem(ti, yi, Len(tickers), Len(years))
     IN  /\ load_runs' =
              IF pc = "load_year_to_s3"
                THEN [load_runs EXCEPT ![ItemIndex(ti, yi, Len(years))] = @ + 1]
                ELSE load_runs
         /\ \/ /\ RecordPut(ticker, ToString(year), "retro", s3_key, json_data, {})
               /\ put_ok' = [put_ok EXCEPT ![ItemIndex(ti, yi, Len(years))] = @ + 1]
               /\ Returns("load_year_to_s3")
               /\ uploaded_keys' = Append(uploaded_keys, s3_key)
               /\ ti' = next.ti
               /\ yi' = next.yi
               /\ pc' = IF next.done THEN "return" ELSE "fetch_year_data"
               /\ UNCHANGED failed
            \/ \* put_object raises: nothing is written
               /\ Raises("load_year_to_s3", StoreRetries, ticker, ToString(year))
               /\ task_puts' = {}
               /\ UNCHANGED <<ti, yi, uploaded_keys, store, puts, latest, put_ok>>
  /\ UNCHANGED <<args, run, tickers, years, year_data, raw_data, date_partition,
                 li, result, now, fetch_runs, keys_at_return, read_runs, fetched,
                 payload>>

\* the closing log lines and the return of tiingo_backfill_flow
BackfillReturn ==
  /\ flow = "backfill"
  /\ pc = "return"
  /\ result' = [uploaded_keys |-> uploaded_keys, total_files |-> Len(uploaded_keys),
                years |-> years, tickers |-> tickers]
  /\ pc' = "returned"
  /\ keys_at_return' = {DOMAIN store}
  /\ UNCHANGED <<args, run, tickers, years, ti, yi, year_data, raw_data,
                 date_partition, li, uploaded_keys, now, store, counters,
                 fetch_runs, load_runs, task_puts, failed, puts, latest,
                 read_runs, put_ok, fetched, payload>>

\* tiingo_to_s3_flow up to its first task call
DailyStart ==
  /\ flow = "daily"
  /\ pc = "start"
  /\ pc' = "fetch_tickers_from_s3"
  /\ UNCHANGED <<args, run, locals, now, store, counters, history>>

\* extract_all_tickers: all_data = [] and the entry of its loop
ExtractAllTickers ==
  /\ flow = "daily"
  /\ pc = "extract_all_tickers"
  /\ raw_data' = <<>>
  /\ ti' = 1
  /\ fetch_runs' = [p \in 1 .. Len(tickers) |-> 0]
  /\ load_runs' = [p \in 1 .. Len(tickers) |-> 0]
  /\ pc' = IF tickers = <<>> THEN "load_to_s3" ELSE "extract_ticker_data"
  /\ UNCHANGED <<args, run, tickers, years, yi, year_data, date_partition, li,
                 uploaded_keys, result, now, store, counters, task_puts, failed,
                 puts, latest, keys_at_return,
                 read_runs>>
  /\ put_ok' = [p \in 1 .. Len(tickers) |-> 0]
  /\ fetched' = <<>>
  /\ payload' = <<>>

\* an extract_all_tickers whose `return all_data` stands inside the loop:
\* the load follows the first ticker's fetch
ExtractTickerDataReturnsEarly ==
  /\ flow = "daily"
  /\ AtTask("extract_ticker_data")
  /\ fetch_runs' =
       IF pc = "extract_ticker_data"
         THEN [fetch_runs EXCEPT ![ti] = @ + 1]
         ELSE fetch_runs
  /\ \/ \E data \in ApiResponses :
          /\ raw_data' = Append(raw_data, [ticker |-> tickers[ti], data |-> data])
          /\ fetched' = Append(fetched, [ticker |-> tickers[ti],
                                         label |-> Strftime(DateOf(now))])
          /\ ti' = ti
          /\ pc' = "load_to_s3"
          /\ Returns("extract_ticker_data")
          /\ UNCHANGED failed
     \/ /\ Raises("extract_ticker_data", FetchRetries, tickers[ti],
                  Strftime(DateOf(now)))
        /\ UNCHANGED <<raw_data, ti, fetched>>
  /\ UNCHANGED <<args, run, tickers, years, yi, year_data, date_partition, li,
                 uploaded_keys, result, now, store, load_runs, task_puts, puts,
                 latest, keys_at_return, read_runs, put_ok, payload>>

\* extract_ticker_data(ticker, api_token): one invocation, and on its return
\* all_data.append(ticker_data) and the step of the loop
ExtractTickerData ==
  /\ flow = "daily"
  /\ AtTask("extract_ticker_data")
  /\ fetch_runs' =
       IF pc = "extract_ticker_data"
         THEN [fetch_runs EXCEPT ![ti] = @ + 1]
         ELSE fetch_runs
  /\ \/ \E data \in ApiResponses :
          /\ raw_data' = Append(raw_data, [ticker |-> tickers[ti], data |-> data])
          /\ fetched' = Append(fetched, [ticker |-> tickers[ti],
                                         label |-> Strftime(DateOf(now))])
          /\ ti' = IF ti < Len(tickers) THEN ti + 1 ELSE ti
          /\ pc' = IF ti < Len(tickers) THEN "extract_ticker_data" ELSE "load_to_s3"
          /\ Returns("extract_ticker_data")
          /\ UNCHANGED failed
     \/ \* requests.get raises, or raise_for_status on a non-2xx answer
        /\ Raises("extract_ticker_data", FetchRetries, tickers[ti],
                  Strftime(DateOf(now)))
        /\ UNCHANGED <<raw_data, ti, fetched>>
  /\ UNCHANGED <<args, run, tickers, years, yi, year_data, date_partition, li,
                 uploaded_keys, result, now, store, load_runs, task_puts, puts,
                 latest, keys_at_return, read_runs, put_ok, payload>>

\* load_to_s3(raw_data, ...): an invocation begins: the date partition is
\* taken from the clock, uploaded_keys = []
LoadToS3Begin ==
  /\ flow = "daily"
  /\ AtTask("load_to_s3")
  /\ task' = "load_to_s3"
  /\ calls' = CallsBefore("load_to_s3") + 1
  /\ fails' = FailsBefore("load_to_s3")
  /\ date_partition' = Strftime(DateOf(now))
  /\ uploaded_keys' = <<>>
  /\ li' = 1
  /\ task_puts' = IF pc = "load_to_s3" THEN {} ELSE task_puts
  /\ load_runs' = IF pc = "load_to_s3" THEN [p \in DOMAIN load_runs |-> load_runs[p] + 1]
                  ELSE load_runs
  /\ pc' = IF raw_data = <<>> THEN "return" ELSE "put_object"
  /\ UNCHANGED <<args, run, tickers, years, ti, yi, year_data, raw_data, result,
                 now, store, fetch_runs, failed, puts, latest, keys_at_return,
                 read_runs, put_ok, fetched, payload>>

\* load_to_s3: one turn of its loop, a put_object of one ticker's data
LoadToS3Put ==
  /\ flow = "daily"
  /\ pc = "put_object"
  /\ LET ticker == raw_data[li].ticker
         s3_key == DailyKey(date_partition, ticker)
         json_data == JsonDumps(raw_data[li].data)
     IN  \/ /\ RecordPut(ticker, date_partition, "daily", s3_key, json_data, task_puts)
            /\ put_ok' = [put_ok EXCEPT ![li] = @ + 1]
            /\ uploaded_keys' = Append(uploaded_keys, s3_key)
            /\ li' = IF li < Len(raw_data) THEN li + 1 ELSE li
            /\ pc' = IF li < Len(raw_data) THEN "put_object" ELSE "return"
            /\ UNCHANGED <<counters, failed>>
         \/ \* put_object raises: this invocation of load_to_s3 raises
            /\ fails' = fails + 1
            /\ IF RetriesLeft(calls, StoreRetries)
                 THEN /\ pc' = RetryOf("load_to_s3")
                      /\ UNCHANGED failed
                 ELSE /\ pc' = "raised"
                      /\ failed' = Append(failed, [task |-> "load_to_s3",
                                                   ticker |-> ticker,
                                                   label |-> date_partition])
            /\ UNCHANGED <<task, calls, li, uploaded_keys, store, task_puts, puts,
                           latest, put_ok>>
  /\ UNCHANGED <<args, run, tickers, years, ti, yi, year_data, raw_data,
                 date_partition, result, now, fetch_runs, load_runs, keys_at_return,
                 read_runs, fetched, payload>>

\* the closing log lines and the return of tiingo_to_s3_flow
DailyReturn ==
  /\ flow = "daily"
  /\ pc = "return"
  /\ result' = uploaded_keys
  /\ pc' = "returned"
  /\ keys_at_return' = {DOMAIN store}
  /\ UNCHANGED <<args, run, tickers, years, ti, yi, year_data, raw_data,
                 date_partition, li, uploaded_keys, now, store, counters,
                 fetch_runs, load_runs, task_puts, failed, puts, latest,
                 read_runs, put_ok, fetched, payload>>

\* A day passes on the clock (datetime.now()); only the daily flow reads it.
Tick ==
  /\ flow = "daily"
  /\ now < MaxDays
  /\ now' = now + 1
  /\ UNCHANGED <<args, run, pc, locals, store, counters, history>>

\* The caller invokes the same flow again, with the same arguments, against
\* the same bucket.
StartRun ==
  /\ Ended
  /\ run < MaxRuns
  /\ run' = run + 1
  /\ pc' = "start"
  /\ tickers' = <<>>
  /\ years' = <<>>
  /\ ti' = 1
  /\ yi' = 1
  /\ year_data' = NoYearData
  /\ raw_data' = <<>>
  /\ date_partition' = ""
  /\ li' = 1
  /\ uploaded_keys' = <<>>
  /\ result' = <<>>
  /\ task' = ""
  /\ calls' = 0
  /\ fails' = 0
  /\ fetch_runs' = <<>>
  /\ load_runs' = <<>>
  /\ task_puts' = {}
  /\ failed' = <<>>
  /\ keys_at_return' = IF pc = "returned" THEN keys_at_return ELSE {}
  /\ read_runs' = 0
  /\ put_ok' = <<>>
  /\ fetched' = <<>>
  /\ payload' = <<>>
  /\ UNCHANGED <<args, now, store, puts, latest>>

Next ==
  \/ BackfillStart
  \/ FetchTickersFromS3
  \/ BackfillPlan
  \/ FetchYearData
  \/ LoadYearToS3
  \/ BackfillReturn
  \/ DailyStart
  \/ ExtractAllTickers
  \/ ExtractTickerData
  \/ LoadToS3Begin
  \/ LoadToS3Put
  \/ DailyReturn
  \/ Tick
  \/ StartRun

Spec == Init /\ [][Next]_vars

\* ----------------------------------------------------------------- claims
FetchTasks == {"fetch_year_data", "extract_ticker_data"}
StoreTasks == {"fetch_tickers_from_s3", "load_year_to_s3", "load_to_s3"}

\* The task run in progress or ended last has returned its result.
TaskReturned ==
  /\ task # ""
  /\ pc \notin {RetryOf(task), "raised", "put_object"}

\* The backfill run has ended and one of its (ticker, year) task runs failed.
BackfillItemFailed ==
  /\ flow = "backfill"
  /\ Ended
  /\ failed # <<>>
  /\ failed[1].task \in {"fetch_year_data", "load_year_to_s3"}

\* C1 (as claimed): when a backfill run has ended and the fetch or load of
\* one (ticker, year) pair failed permanently, the fetch of every pair of
\* the run has been invoked at least once.
C1_FailureIsolation ==
  BackfillItemFailed => \A p \in DOMAIN fetch_runs : fetch_runs[p] >= 1

\* C2 (as claimed): a run that has ended has returned its result; it never
\* ends by raising.
C2_RunReturns == Ended => pc = "returned"

\* C3 (as claimed): no fetch task is invoked more than 3 times and no store
\* task more than 2 times in one task run, and a task run that failed
\* permanently was invoked exactly that many times.
C3_MaxAttempts ==
  /\ task \in FetchTasks => calls <= 3
  /\ task \in StoreTasks => calls <= 2
  /\ pc = "raised" => calls = (IF task \in FetchTasks THEN 3 ELSE 2)

\* C3 (amended): no fetch task is invoked more than retries + 1 = 4 times and
\* no store task more than retries + 1 = 3 times in one task run; a task run
\* that failed permanently was invoked exactly that many times, and every
\* one of its invocations raised.
C3_RetryBound ==
  /\ task \in FetchTasks => calls <= FetchRetries + 1
  /\ task \in StoreTasks => calls <= StoreRetries + 1
  /\ pc = "raised" =>
       /\ fails = calls
       /\ calls = (IF task \in FetchTasks THEN FetchRetries + 1
                   ELSE StoreRetries + 1)

\* C3 witness: fetch_year_data has failed permanently, on its 4th invocation.
C3_Witness ==
  /\ pc = "raised"
  /\ task = "fetch_year_data"
  /\ calls = 4
  /\ fails = 4

\* C4: a task run that returned after k failed invocations was invoked
\* exactly k + 1 times (k within the retries); the fetch that returned
\* handed the flow the answer for the item at hand; and no work item of the
\* run gets a second fetch or load task run, so the operation is not invoked
\* again for an item after it has succeeded.
C4_RetryUntilSuccess ==
  /\ TaskReturned =>
       /\ calls = fails + 1
       /\ fails <= (IF task \in FetchTasks THEN FetchRetries ELSE StoreRetries)
  /\ pc = "load_year_to_s3" =>
       /\ year_data.ticker = tickers[ti]
       /\ year_data.year = years[yi]
       /\ year_data.data \in ApiResponses
  /\ \A p \in DOMAIN fetch_runs : fetch_runs[p] <= 1 /\ load_runs[p] <= 1

\* C4 witness: fetch_year_data failed twice, succeeded on the third
\* invocation, and the flow has moved on to the load of the same item.
C4_Witness ==
  /\ pc = "load_year_to_s3"
  /\ task = "fetch_year_data"
  /\ fails = 2
  /\ calls = 3
  /\ year_data.ticker = tickers[ti]
  /\ year_data.year = years[yi]

\* C5 (as claimed): when a backfill run that got its ticker list has ended,
\* succeeded keys plus failed items number len(tickers) * len(years).
C5_ScaleInvariant ==
  (/\ flow = "backfill"
   /\ Ended
   /\ (failed = <<>> \/ failed[1].task # "fetch_tickers_from_s3"))
  => Len(uploaded_keys) + Len(failed) = Len(tickers) * Len(years)

\* The key of the n-th work item when tickers are taken in input order and,
\* for each ticker, the years in list order.
TickerMajorKey(n) ==
  RetroKey(years[((n - 1) % Len(years)) + 1],
           tickers[((n - 1) \div Len(years)) + 1])

\* C6: in a backfill run the years are ascending, the uploaded keys are, in
\* order, the keys of the first work items in ticker-major, year-minor
\* order, the work item being fetched or loaded is the next one in that
\* order, and no item is attempted before an earlier one.
C6_IterationOrder ==
  flow = "backfill" =>
    /\ \A a, b \in DOMAIN years : a < b => years[a] < years[b]
    /\ \A n \in DOMAIN uploaded_keys : uploaded_keys[n] = TickerMajorKey(n)
    /\ (AtTask("fetch_year_data") \/ AtTask("load_year_to_s3")) =>
         RetroKey(years[yi], tickers[ti]) = TickerMajorKey(Len(uploaded_keys) + 1)
    /\ \A p, q \in DOMAIN fetch_runs :
         (p < q /\ fetch_runs[q] >= 1) => fetch_runs[p] >= 1

\* C6 witness: a run over two different tickers and two years has returned
\* all four keys.
C6_Witness ==
  /\ flow = "backfill"
  /\ pc = "returned"
  /\ Len(tickers) = 2
  /\ tickers[1] # tickers[2]
  /\ Len(years) = 2
  /\ Len(result.uploaded_keys) = 4

\* The run of the end-to-end scenario has returned.
ScenarioReturned ==
  /\ flow = "backfill"
  /\ pc = "returned"
  /\ tickers = <<"AAPL", "TSLA">>
  /\ start_year = 2023
  /\ end_year = 2024

\* C7 (as claimed): the scenario run returns the keys year by year:
\* 2023/AAPL, 2023/TSLA, 2024/AAPL, 2024/TSLA.
C7_ScenarioYearMajor ==
  ScenarioReturned =>
    /\ result.uploaded_keys =
         << "tiingo/json/load_type=retro/year=2023/AAPL.json",
            "tiingo/json/load_type=retro/year=2023/TSLA.json",
            "tiingo/json/load_type=retro/year=2024/AAPL.json",
            "tiingo/json/load_type=retro/year=2024/TSLA.json" >>
    /\ failed = <<>>

\* C7 (amended): the scenario run returns the keys ticker by ticker:
\* 2023/AAPL, 2024/AAPL, 2023/TSLA, 2024/TSLA, total_files = 4, and no
\* task run failed.
C7_ScenarioTickerMajor ==
  ScenarioReturned =>
    /\ result.uploaded_keys =
         << "tiingo/json/load_type=retro/year=2023/AAPL.json",
            "tiingo/json/load_type=retro/year=2024/AAPL.json",
            "tiingo/json/load_type=retro/year=2023/TSLA.json",
            "tiingo/json/load_type=retro/year=2024/TSLA.json" >>
    /\ result.total_files = 4
    /\ failed = <<>>

\* C7 witness: the scenario run has returned, and its last load task run
\* succeeded on its first invocation.
C7_Witness ==
  /\ ScenarioReturned
  /\ task = "load_year_to_s3"
  /\ calls = 1

\* C8 (as claimed): when a load task run has failed on all its invocations,
\* the bucket holds no object written by that task run.
C8_NoPartialState ==
  (pc = "raised" /\ task \in {"load_to_s3", "load_year_to_s3"})
  => \A k \in task_puts : k \notin DOMAIN store

\* C9 (as claimed): when a backfill run that got its ticker list has ended,
\* the work items are all of tickers x years and each one's fetch/load
\* sequence was started exactly once.
C9_EveryItemOnce ==
  (/\ flow = "backfill"
   /\ Ended
   /\ (failed = <<>> \/ failed[1].task # "fetch_tickers_from_s3"))
  => /\ DOMAIN fetch_runs = 1 .. (Len(tickers) * Len(years))
     /\ \A p \in DOMAIN fetch_runs : fetch_runs[p] = 1

SameItem(a, b) ==
  a.ticker = b.ticker /\ a.label = b.label /\ a.load_type = b.load_type

\* the keys at which the item of write w has ever been written
KeysOf(w) == {p.key : p \in {q \in puts : SameItem(q, w)}}

\* C10: every (ticker, window, load type) that has been loaded, however
\* often and in whichever run, has exactly one key, whose object holds the
\* body of its most recent write; the bucket holds one data object per item
\* loaded; and while a backfill is re-run after a run that returned, the set
\* of keys in the bucket stays what it was at that return.
C10_IdempotentLoad ==
  /\ \A w \in latest :
       /\ Cardinality(KeysOf(w)) = 1
       /\ \A k \in KeysOf(w) : k \in DOMAIN store /\ store[k] = w.body
  /\ Cardinality(DOMAIN store \ {TICKERS_S3_KEY}) = Cardinality(latest)
  /\ (flow = "backfill" /\ run > 1 /\ keys_at_return # {}) =>
       DOMAIN store \in keys_at_return

\* C10 witness: the second run of a backfill over the same ticker twice has
\* loaded the item again, twice: one key, one data object, holding the body
\* of the last fetch.
C10_Witness ==
  /\ flow = "backfill"
  /\ run = 2
  /\ keys_at_return # {}
  /\ Len(uploaded_keys) = 2
  /\ uploaded_keys[1] = uploaded_keys[2]
  /\ uploaded_keys[2] \in UNION keys_at_return
  /\ Cardinality(DOMAIN store \ {TICKERS_S3_KEY}) = 1
  /\ year_data.data = <<1, 2>>
  /\ store[uploaded_keys[2]] = "[1, 2]"

\* ticker symbols the key builders are compared on, beyond those the runs use
KeyTickers == TickerNames \cup {"A", "AA", "BRK.B", "A.json"}

\* the date partitions the clock can give
DatePartitions == {Strftime(DateOf(n)) : n \in 1 .. (MaxDays + 1)}

\* The n-th and the m-th key of uploaded_keys are keys of the same
\* (ticker, partition label); the keys of one load_to_s3 invocation share its
\* date partition.
SameItemAt(n, m) ==
  /\ fetched[n].ticker = fetched[m].ticker
  /\ (flow = "backfill") => (fetched[n].label = fetched[m].label)

\* the key builders give two (ticker, partition label) pairs the same key
\* exactly when the pairs are equal
KeyBuildersInjective ==
  /\ \A t1 \in KeyTickers, t2 \in KeyTickers, y1 \in YearRange, y2 \in YearRange :
       (RetroKey(y1, t1) = RetroKey(y2, t2)) <=> (t1 = t2 /\ y1 = y2)
  /\ \A t1 \in KeyTickers, t2 \in KeyTickers,
        d1 \in DatePartitions, d2 \in DatePartitions :
       (DailyKey(d1, t1) = DailyKey(d2, t2)) <=> (t1 = t2 /\ d1 = d2)

\* C11: under one load type two work items have the same key exactly when
\* they are the same (ticker, partition label): for the key builders on all
\* tickers and labels, for every write the pipeline has made, and within the
\* keys one run reports, so that no item's write lands on another item's key.
C11_KeyInjective ==
  /\ KeyBuildersInjective
  \* under each load type, as many keys as writes that differ, and as many
  \* items
  /\ Cardinality({<<a.load_type, a.key>> : a \in puts}) = Cardinality(puts)
  /\ Cardinality({<<a.load_type, a.ticker, a.label>> : a \in puts})
       = Cardinality(puts)
  /\ \A n \in DOMAIN uploaded_keys :
       \A m \in 1 .. (n - 1) :
         (uploaded_keys[n] = uploaded_keys[m]) <=> SameItemAt(n, m)

\* C11 witness: the second run of a backfill of two tickers over two years
\* has written its four items again, at four keys.
C11_Witness ==
  /\ flow = "backfill"
  /\ run = 2
  /\ Len(uploaded_keys) = 4
  /\ Cardinality({uploaded_keys[n] : n \in 1 .. 4}) = 4
  /\ Cardinality(puts) = 4
  /\ tickers[1] # tickers[2]

\* some fetch of price data has been invoked in this run
SomeFetchStarted == \E p \in DOMAIN fetch_runs : fetch_runs[p] > 0

\* the ticker of the n-th work item of a backfill over the list l
TickerOfItem(l, n) == l[((n - 1) \div Len(years)) + 1]

\* C12: in a backfill run that was passed a ticker list, fetch_tickers_from_s3
\* is never run and the work items are those of the passed list; in a run
\* that was passed none, it is run at most once, and before any fetch of
\* price data is invoked.
C12_TickerSource ==
  (flow = "backfill") =>
    /\ tickers_arg.given =>
         /\ read_runs = 0
         /\ ~AtTask("fetch_tickers_from_s3")
         /\ task # "fetch_tickers_from_s3"
         /\ (pc # "start") => (tickers = tickers_arg.list)
         /\ (pc \notin {"start", "plan"}) =>
              (Len(fetch_runs) = Len(tickers_arg.list) * Len(years))
         /\ \A n \in DOMAIN fetched :
              fetched[n].ticker = TickerOfItem(tickers_arg.list, n)
    /\ (~tickers_arg.given) =>
         /\ read_runs <= 1
         /\ (pc = "start") => (read_runs = 0)
         /\ (pc \notin {"start", "fetch_tickers_from_s3"}) => (read_runs = 1)
         /\ SomeFetchStarted =>
              (read_runs = 1 /\ ~AtTask("fetch_tickers_from_s3"))

\* C12 witness: a backfill that was passed a list other than the one in the
\* ticker file of the bucket has returned, having fetched the passed tickers.
C12_Witness ==
  /\ flow = "backfill"
  /\ tickers_arg.given
  /\ TICKERS_S3_KEY \in DOMAIN store
  /\ ParseTickers(store[TICKERS_S3_KEY]) # tickers_arg.list
  /\ pc = "returned"
  /\ Len(tickers_arg.list) = 2
  /\ Len(fetched) = 2
  /\ fetched[1].ticker = tickers_arg.list[1]
  /\ fetched[2].ticker = tickers_arg.list[2]
  /\ read_runs = 0

\* the position in the loop order of the work item the backfill is at
CurrentItem == ItemIndex(ti, yi, Len(years))

\* the year of the n-th work item of a backfill
YearOfItem(n) == years[((n - 1) % Len(years)) + 1]

\* C13: in a backfill the load of a work item is invoked only once the fetch
\* of that item has returned its data, a fetch is invoked only once the load
\* of every earlier item has returned, and the n-th key of uploaded_keys
\* was appended on the return of the n-th item's load, whose put_object has
\* succeeded.
C13_ItemProtocol ==
  (flow = "backfill") =>
    /\ \A p \in DOMAIN load_runs :
         (load_runs[p] > 0) =>
           /\ fetch_runs[p] = 1
           /\ p <= Len(fetched)
           /\ fetched[p].ticker = TickerOfItem(tickers, p)
    /\ AtTask("load_year_to_s3") =>
         /\ task \in {"fetch_year_data", "load_year_to_s3"}
         /\ Len(fetched) = CurrentItem
         /\ year_data.ticker = tickers[ti] /\ year_data.year = years[yi]
         /\ year_data.data = payload[<<tickers[ti], ToString(years[yi])>>]
    /\ \A q \in DOMAIN fetch_runs :
         \* the item before q is loaded, and so, in turn, are all before it
         (fetch_runs[q] > 0 /\ q > 1) =>
           /\ fetch_runs[q - 1] = 1
           /\ load_runs[q - 1] = 1
           /\ put_ok[q - 1] = 1
           /\ q - 1 <= Len(uploaded_keys)
    /\ Len(uploaded_keys) = Cardinality({p \in DOMAIN put_ok : put_ok[p] > 0})
    /\ \A n \in DOMAIN uploaded_keys :
         /\ put_ok[n] = 1
         /\ uploaded_keys[n] \in DOMAIN store
    /\ AtTask("fetch_year_data") => (Len(uploaded_keys) = CurrentItem - 1)

\* C13 witness: the first item of a backfill is loaded and its key appended,
\* the fetch of the second item has returned, and the load of the second
\* item has failed once and awaits its retry.
C13_Witness ==
  /\ flow = "backfill"
  /\ pc = RetryOf("load_year_to_s3")
  /\ CurrentItem = 2
  /\ Len(fetched) = 2
  /\ Len(uploaded_keys) = 1
  /\ uploaded_keys[1] \in DOMAIN store
  /\ put_ok = <<1, 0>>
  /\ load_runs[2] = 1

\* the list names each ticker once
NoRepeats(l) == \A i \in DOMAIN l, j \in DOMAIN l : (l[i] = l[j]) => (i = j)

\* C14: in a run over distinct tickers no work item's put_object succeeds
\* more than once, so the write of one ticker is never made again because
\* the write of another ticker failed and was retried; in the backfill and
\* in the daily flow.
C14_RetryPerItem ==
  NoRepeats(tickers) => \A p \in DOMAIN put_ok : put_ok[p] <= 1

\* the data fetched in this run for the item of the n-th key
FetchedFor(n) ==
  IF flow = "backfill"
    THEN payload[<<fetched[n].ticker, fetched[n].label>>]
    ELSE raw_data[n].data

\* a later key of uploaded_keys is a key of the item of the n-th key, whose
\* load has written the object since
LoadedAgain(n) ==
  \E m \in (n + 1) .. Len(uploaded_keys) : SameItemAt(n, m)

\* The item of the n-th key has been fetched once more, further down the
\* list, and the load of that fetch has not returned.
FetchPending(n) ==
  Len(fetched) > Len(uploaded_keys) /\ SameItemAt(n, Len(fetched))

\* the backfill key of every year and ticker
RetroKeys == [y \in YearRange |-> [t \in TickerNames |-> RetroKey(y, t)]]

\* the body load_year_to_s3 and load_to_s3 store for each answer of the API
AsStored == [d \in ApiResponses |-> JsonDumps(d)]

\* C15: at every point of a run the n-th key of uploaded_keys is the key of
\* the n-th work item, names an object of the bucket, and that object is the
\* json.dumps of the data the fetch of that item returned in this run; when
\* the list names the ticker more than once, of the data of the last of the
\* item's fetches that has been loaded.
C15_KeysBacked ==
  /\ Len(uploaded_keys) <= Len(fetched)
  /\ \A n \in DOMAIN uploaded_keys :
       /\ uploaded_keys[n] =
            IF flow = "backfill"
              THEN RetroKeys[YearOfItem(n)][fetched[n].ticker]
              ELSE DailyKey(date_partition, fetched[n].ticker)
       /\ uploaded_keys[n] \in DOMAIN store
       /\ \/ store[uploaded_keys[n]] = AsStored[FetchedFor(n)]
          \/ LoadedAgain(n)
          \/ FetchPending(n)
  /\ (pc = "returned" /\ flow = "backfill") =>
       (result.uploaded_keys = uploaded_keys /\ Len(uploaded_keys) = Len(fetched))
  /\ (pc = "returned" /\ flow = "daily") =>
       (result = uploaded_keys /\ Len(uploaded_keys) = Len(fetched))

\* C15 witness: a second run has loaded two items whose fetches returned
\* different data, and each reported key holds its own item's data.
C15_Witness ==
  /\ run = 2
  /\ Len(uploaded_keys) = 2
  /\ uploaded_keys[1] # uploaded_keys[2]
  /\ FetchedFor(1) = <<1, 2>>
  /\ FetchedFor(2) = <<>>
  /\ store[uploaded_keys[1]] = "[1, 2]"
  /\ store[uploaded_keys[2]] = "[]"

\* some put_object of this run has succeeded
SomePutDone == \E p \in DOMAIN put_ok : put_ok[p] > 0

\* C16: in a daily run no put_object is made before the fetch of every
\* ticker of the list has returned its data, and a run in which the fetch of
\* a ticker failed after its last retry has written nothing.
C16_PhaseBarrier ==
  (flow = "daily") =>
    /\ (AtTask("load_to_s3") \/ pc = "put_object" \/ SomePutDone
          \/ task_puts # {} \/ uploaded_keys # <<>>) =>
         /\ Len(fetched) = Len(tickers)
         /\ Len(raw_data) = Len(tickers)
         /\ \A p \in DOMAIN tickers :
              fetch_runs[p] = 1 /\ raw_data[p].ticker = tickers[p]
    /\ (pc = "raised" /\ failed[Len(failed)].task # "load_to_s3") =>
         /\ ~SomePutDone
         /\ task_puts = {}
         /\ uploaded_keys = <<>>
         /\ (run = 1) => (puts = {} /\ DOMAIN store \subseteq {TICKERS_S3_KEY})

\* C16 witness: the fetch of the second ticker failed after its last retry,
\* the first ticker's data had been fetched, and the bucket holds the
\* ticker file only.
C16_Witness ==
  /\ flow = "daily"
  /\ pc = "raised"
  /\ failed[Len(failed)].task = "extract_ticker_data"
  /\ Len(tickers) = 2
  /\ Len(fetched) = 1
  /\ fetch_runs = <<1, 1>>
  /\ DOMAIN store = {TICKERS_S3_KEY}

\* the keys of date partition d
KeysUnder(d) == {DailyKey(d, t) : t \in TickerNames}

\* C17: the objects one daily run has written, for all its tickers and over
\* all invocations of load_to_s3, are under one date partition.
C17_OnePartition ==
  (flow = "daily") =>
    \E d \in DatePartitions : task_puts \subseteq KeysUnder(d)

\* A backfill with start_year > end_year invokes no fetch of price data and
\* no put_object, and when it returns its result has no keys; with
\* start_year <= end_year its years are start_year, ..., end_year.
EmptyRangeIdle ==
  (flow = "backfill") =>
    /\ (start_year > end_year) =>
         /\ ~SomeFetchStarted
         /\ fetched = <<>>
         /\ ~AtTask("fetch_year_data") /\ ~AtTask("load_year_to_s3")
         /\ task \notin {"fetch_year_data", "load_year_to_s3"}
         /\ ~SomePutDone
         /\ puts = {}
         /\ DOMAIN store \subseteq {TICKERS_S3_KEY}
         /\ uploaded_keys = <<>>
         /\ (pc = "returned") =>
              /\ result.uploaded_keys = <<>>
              /\ result.total_files = 0
              /\ result.years = <<>>
    /\ (start_year <= end_year /\ pc \notin {"start", "fetch_tickers_from_s3",
                                               RetryOf("fetch_tickers_from_s3"),
                                               "plan", "raised"}) =>
         /\ Len(years) = end_year - start_year + 1
         /\ \A k \in DOMAIN years : years[k] = start_year + k - 1

\* C18: a backfill with start_year > end_year invokes no fetch and no
\* put_object and returns, never raising, with no uploaded keys and
\* total_files = 0; with start_year <= end_year the years processed are
\* exactly start_year, ..., end_year.
C18_EmptyRange ==
  /\ EmptyRangeIdle
  /\ (flow = "backfill" /\ start_year > end_year) => (pc # "raised")

====
